---- MODULE Spec2Model ----
(***************************************************************************)
(* Model of the bitswan-gitops-cli `init` command (cmd/init.go), the       *)
(* registry version resolver (internal/dockerhub/dockerhub.go) and the     *)
(* on-disk layout that `list` (cmd/list.go) reads.                         *)
(*                                                                         *)
(* The host (filesystem, container networks, the shared proxy, registered  *)
(* routes, started stacks, the git remote) persists across invocations.    *)
(* One invocation of initOptions.run is a sequence of steps, one action    *)
(* per statement that can fail; a step either succeeds, or fails the way   *)
(* the code fails there (`return fmt.Errorf` or `panic`).  Deferred        *)
(* recover handlers run, last registered first, when run leaves.           *)
(*                                                                         *)
(* Flag values (o) and args are fixed when the command is parsed; the      *)
(* model draws each of them in the action that first reads it and keeps    *)
(* it for the later reads.                                                 *)
(***************************************************************************)
EXTENDS Naturals, Integers, Sequences, FiniteSets, TLC

\* ---------------------------------------------------------------- bounds
MaxRuns == 2                 \* init invocations started on the host
Procs == {1, 2}              \* invocations that may be in flight
SerialProcs == {1}           \* serialized use: one invocation at a time

\* positional arguments: cobra.RangeArgs(1, 2)
ArgLists == {<<"demo">>, <<"demo", "extra">>}
Names == {"demo", "gitops"}  \* workspace names these select
Uids == {0, 1000}            \* owner a stat of a created directory can report
Domain == "demo.example.com" \* --domain
RemoteRepos == {"", "origin"}
CertsDirs == {"", "certsrc"}
TempDirs == <<"certs-1", "certs-2", "certs-3", "certs-4", "certs-5">>  \* os.MkdirTemp("", "certs-*")
Images == {"", "custom"}
\* opaque tokens, as character sequences
Tokens == {<<"t", "1">>, <<"a", "=", "b">>}

\* ------------------------------------------------------------- variables
VARIABLES
  fs,               \* filesystem: path -> entry
  networks,         \* container engine: network name -> number of networks
  proxyRunning,     \* the proxy stack is up (admin endpoint answers)
  proxyInitialized, \* caddyapi.InitCaddy succeeded on the running proxy
  routes,           \* names registered with the proxy admin API
  stacks,           \* compose projects started
  remoteBranches,   \* branches pushed to origin
  pc,               \* position of each invocation in run
  args, o,          \* positional arguments and flags
  caddy_running, inputCertsDir, gitopsName,   \* locals of run
  defers,           \* deferred recover handlers, last registered last
  cwd,              \* working directory of the process
  token,            \* token returned by CreateDockerComposeFile
  compose,          \* compose text returned by CreateDockerComposeFile
  result,           \* how run left: "nil", "error" or "crash" (panic escaped)
  failedAt,         \* the step that failed, "none" otherwise
  cleaned,          \* handlers that ran cleanup in this invocation
  did,              \* externally visible operations of this invocation
  fsAtStart,        \* filesystem when the invocation started
  runs,
  resolver,         \* one call of the registry version resolver
  stdout,           \* the GITOPS INFO lines run printed (lines 521-524)
  listed,           \* outcome of the last `list`: error and names printed
  caddyStarts,      \* proxy stack starts issued on the host
  raced             \* a probe ran while another invocation was bootstrapping

hostRest == <<networks, proxyRunning, proxyInitialized, routes, stacks, remoteBranches>>
locals == <<args, o, caddy_running, inputCertsDir, gitopsName, defers, cwd, token, compose>>
hist == <<did, fsAtStart, runs, resolver, stdout, listed, caddyStarts, raced>>
vars == <<fs, hostRest, pc, locals, result, failedAt, cleaned, hist>>

\* ------------------------------------------------------------ filesystem
Dir == [k |-> "dir", v |-> ""]
File(c) == [k |-> "file", v |-> c]

bitswanConfig == <<"bitswan">>
caddyConfig == bitswanConfig \o <<"caddy">>
caddyCertsDir == caddyConfig \o <<"certs">>
HomeDir == <<"home">>

\* a directory name given on the command line or returned by MkdirTemp
DirPath(s) == <<s>>

Exists(f, p) == p \in DOMAIN f
IsDir(f, p) == Exists(f, p) /\ f[p].k = "dir"
IsPrefix(d, q) == Len(d) <= Len(q) /\ SubSeq(q, 1, Len(d)) = d
Prefixes(p) == {SubSeq(p, 1, n) : n \in 0..Len(p)}

MkdirAll(f, p) ==
  [q \in DOMAIN f \cup Prefixes(p) |-> IF q \in DOMAIN f THEN f[q] ELSE Dir]

Mkdir(f, p) == [q \in DOMAIN f \cup {p} |-> IF q = p THEN Dir ELSE f[q]]

WriteFile(f, p, c) ==
  [q \in DOMAIN f \cup {p} |-> IF q = p THEN File(c) ELSE f[q]]

RemoveAll(f, d) == [q \in {x \in DOMAIN f : ~IsPrefix(d, x)} |-> f[q]]

\* cleanup(dir): os.RemoveAll; a failure to remove is only printed.
cleanup(f, dir) == RemoveAll(f, dir)

\* ------------------------------------------------- deferred recover handlers
\* A handler is [scope, dir].  `if r := recover(); r != nil { cleanup(dir) }`:
\* recover() is non-nil only while a panic is unwinding, and stops it.
RecoverHandler_Reraise(h, panicking, f) ==
  IF panicking
  THEN [fs |-> cleanup(f, h.dir), panicking |-> TRUE, cleaned |-> {h.scope}]
  ELSE [fs |-> f, panicking |-> FALSE, cleaned |-> {}]

RecoverHandler(h, panicking, f) ==
  IF panicking
  THEN [fs |-> cleanup(f, h.dir), panicking |-> FALSE, cleaned |-> {h.scope}]
  ELSE [fs |-> f, panicking |-> FALSE, cleaned |-> {}]

RECURSIVE RunDefers(_, _, _)
RunDefers(stack, panicking, f) ==
  IF stack = <<>>
  THEN [fs |-> f, panicking |-> panicking, cleaned |-> {}]
  ELSE LET h == stack[Len(stack)]
           r == RecoverHandler(h, panicking, f)
           rest == RunDefers(SubSeq(stack, 1, Len(stack) - 1), r.panicking, r.fs)
       IN [fs |-> rest.fs, panicking |-> rest.panicking,
           cleaned |-> r.cleaned \cup rest.cleaned]

\* run has an unnamed result: after a recovered panic it returns the zero
\* value, nil.  A panic no handler recovers crashes the process.
ResultAfterPanic(stillPanicking) == IF stillPanicking THEN "crash" ELSE "nil"

Finish(p, res, at, f, cl) ==
  /\ pc' = [pc EXCEPT ![p] = "done"]
  /\ result' = [result EXCEPT ![p] = res]
  /\ failedAt' = [failedAt EXCEPT ![p] = at]
  /\ cleaned' = [cleaned EXCEPT ![p] = cl]
  /\ fs' = f

ReturnErr(p, at) ==
  LET r == RunDefers(defers[p], FALSE, fs)
  IN Finish(p, "error", at, r.fs, r.cleaned)

Panic(p, at) ==
  LET r == RunDefers(defers[p], TRUE, fs)
  IN Finish(p, ResultAfterPanic(r.panicking), at, r.fs, r.cleaned)

ReturnNil(p) ==
  LET r == RunDefers(defers[p], FALSE, fs)
  IN Finish(p, "nil", "none", r.fs, r.cleaned)

Goto(p, next) ==
  /\ pc' = [pc EXCEPT ![p] = next]
  /\ UNCHANGED <<result, failedAt, cleaned>>

Did(p, e) == did' = [did EXCEPT ![p] = @ \cup {e}]

\* ------------------------------------------------------------------ Init
\* defaultInitOptions(): the zero value.  o keeps the flags run reads more
\* than once (remoteRepo, noIde); certsDir, mkCerts, gitopsImage and
\* editorImage are read once and drawn where they are read.
defaultInitOptions == [remoteRepo |-> "", noIde |-> FALSE]

\* a compose document: service name -> [environment: list of "KEY=value"]
NoCompose == [services |-> <<>>]
\* `list` has not run since the last init started
NotListed == [err |-> "none", names |-> {}]
\* nothing printed yet
NoOutput == [id |-> "", secret |-> <<>>]

networkName == "bitswan_network"     \* line 173
NetNames == {"bitswan_network", "bitswan_network_dev"}

\* The host before the first init: a home directory, a directory of
\* certificate material (two files and a subdirectory) and, in the engine,
\* a network of another name.
InitialFs ==
  LET files == (DirPath("certsrc") \o <<"full-chain.pem">>) :> File("chain")
            @@ (DirPath("certsrc") \o <<"private-key.pem">>) :> File("key")
      dirs == [q \in {<<>>, HomeDir, DirPath("certsrc"),
                      DirPath("certsrc") \o <<"old">>} |-> Dir]
  IN files @@ dirs

HostInit ==
  /\ fs = InitialFs
  /\ networks = [n \in NetNames |-> IF n = networkName THEN 0 ELSE 1]
  /\ proxyRunning = FALSE
  /\ proxyInitialized = FALSE
  /\ routes = {}
  /\ stacks = {}
  /\ remoteBranches = {}
  /\ pc = [p \in Procs |-> "idle"]
  /\ args = [p \in Procs |-> <<>>]
  /\ o = [p \in Procs |-> defaultInitOptions]
  /\ caddy_running = [p \in Procs |-> FALSE]
  /\ inputCertsDir = [p \in Procs |-> ""]
  /\ gitopsName = [p \in Procs |-> ""]
  /\ defers = [p \in Procs |-> <<>>]
  /\ cwd = [p \in Procs |-> HomeDir]
  /\ token = [p \in Procs |-> <<>>]
  /\ compose = [p \in Procs |-> NoCompose]
  /\ result = [p \in Procs |-> "none"]
  /\ failedAt = [p \in Procs |-> "none"]
  /\ cleaned = [p \in Procs |-> {}]
  /\ did = [p \in Procs |-> {}]
  /\ fsAtStart = [p \in Procs |-> fs]
  /\ runs = 0
  /\ stdout = [p \in Procs |-> NoOutput]
  /\ listed = NotListed
  /\ caddyStarts = 0
  /\ raced = FALSE

Init ==
  /\ HostInit
  /\ resolver = [pc |-> "idle", response |-> [kind |-> "none", tags |-> <<>>],
                 tag |-> <<>>, err |-> ""]

\* --------------------------------------------------------------- actions
\* newInitCmd: cobra calls o.run with fresh options and 1 or 2 arguments.
Start(p) ==
  /\ pc[p] \in {"idle", "done"}
  /\ runs < MaxRuns
  /\ runs' = runs + 1
  /\ pc' = [pc EXCEPT ![p] = "mkroot"]
  /\ args' = [args EXCEPT ![p] = <<>>]
  /\ o' = [o EXCEPT ![p] = defaultInitOptions]
  /\ caddy_running' = [caddy_running EXCEPT ![p] = FALSE]
  /\ inputCertsDir' = [inputCertsDir EXCEPT ![p] = ""]
  /\ gitopsName' = [gitopsName EXCEPT ![p] = ""]
  /\ defers' = [defers EXCEPT ![p] = <<>>]
  /\ cwd' = [cwd EXCEPT ![p] = HomeDir]
  /\ token' = [token EXCEPT ![p] = <<>>]
  /\ result' = [result EXCEPT ![p] = "none"]
  /\ failedAt' = [failedAt EXCEPT ![p] = "none"]
  /\ cleaned' = [cleaned EXCEPT ![p] = {}]
  /\ did' = [did EXCEPT ![p] = {}]
  /\ fsAtStart' = [fsAtStart EXCEPT ![p] = fs]
  /\ compose' = [compose EXCEPT ![p] = NoCompose]
  /\ stdout' = [stdout EXCEPT ![p] = NoOutput]
  /\ listed' = NotListed
  /\ UNCHANGED <<fs, hostRest, resolver, caddyStarts, raced>>

\* run, lines 164-170: create the config root if it is missing.
MkConfigRoot(p) ==
  /\ pc[p] = "mkroot"
  /\ \/ /\ Exists(fs, bitswanConfig)
        /\ Goto(p, "network")
        /\ UNCHANGED <<fs, hostRest, locals, hist>>
     \/ /\ ~Exists(fs, bitswanConfig)
        /\ \E ok \in BOOLEAN :
             IF ok
             THEN /\ fs' = MkdirAll(fs, bitswanConfig)
                  /\ Goto(p, "network")
                  /\ UNCHANGED <<hostRest, locals, hist>>
             ELSE /\ ReturnErr(p, "mkroot")
                  /\ UNCHANGED <<hostRest, locals, hist>>

Fail(p, at, mode) == IF mode = "panic" THEN Panic(p, at) ELSE ReturnErr(p, at)

\* every entry lies in a directory: a write below a missing directory fails
WellFormed(f) ==
  \A q \in DOMAIN f : q # <<>> => IsDir(f, SubSeq(q, 1, Len(q) - 1))

\* A step that only touches the filesystem: on success the filesystem becomes
\* newFs; on failure run leaves by `return err` or by `panic`.
FsStep(p, at, next, mode, newFs) ==
  /\ pc[p] = at
  /\ \E ok \in BOOLEAN :
       IF ok
       THEN /\ WellFormed(newFs)
            /\ fs' = newFs
            /\ Goto(p, next)
            /\ Did(p, at)
            /\ UNCHANGED <<hostRest, locals, fsAtStart, runs, resolver, stdout, listed, caddyStarts, raced>>
       ELSE /\ Fail(p, at, mode)
            /\ UNCHANGED <<hostRest, locals, hist>>

\* ----------------------------------------------------------- network stage
NetOrder == <<"bitswan_network_dev", "bitswan_network">>

\* `docker network ls --format=json`: one JSON line per network.
NetworkLs(nets) ==
  LET linesOf(n) == [i \in 1..nets[n] |-> n]
  IN linesOf(NetOrder[1]) \o linesOf(NetOrder[2])

\* strings.Split(strings.TrimSpace(output), "\n"): an empty output is one
\* empty line.  A line json.Unmarshal rejects is written "".
SplitLines(out) == IF out = <<>> THEN <<"">> ELSE out

RECURSIVE ScanLines(_, _, _)
ScanLines(lines, name, i) ==
  IF i > Len(lines) THEN [exists |-> FALSE, err |-> FALSE]
  ELSE IF lines[i] = "" THEN [exists |-> FALSE, err |-> TRUE]   \* json.Unmarshal fails
  ELSE IF lines[i] = name THEN [exists |-> TRUE, err |-> FALSE]
  ELSE ScanLines(lines, name, i + 1)

checkNetworkExists_AnyName(name, cmdOk, output) ==
  IF ~cmdOk THEN [exists |-> FALSE, err |-> TRUE]
  ELSE IF SplitLines(output)[1] = "" THEN [exists |-> FALSE, err |-> TRUE]
  ELSE [exists |-> TRUE, err |-> FALSE]

checkNetworkExists(name, cmdOk, output) ==
  IF ~cmdOk THEN [exists |-> FALSE, err |-> TRUE]
  ELSE ScanLines(SplitLines(output), name, 1)

NetworkStage_CreateFatal(p) ==
  /\ pc[p] = "network"
  /\ \E cmdOk \in BOOLEAN, parsable \in BOOLEAN :
       LET output == IF parsable THEN NetworkLs(networks) ELSE <<"">>
           r == checkNetworkExists(networkName, cmdOk, output)
       IN IF r.err
          THEN /\ Panic(p, "network")
               /\ UNCHANGED <<hostRest, locals, hist>>
          ELSE IF r.exists
          THEN /\ Goto(p, "probe")
               /\ Did(p, "networkFound")
               /\ UNCHANGED <<fs, hostRest, locals, fsAtStart, runs, resolver, stdout, listed, caddyStarts, raced>>
          ELSE \E out \in {"created", "exit status 1", "other"} :
               /\ (out = "created") => networks[networkName] = 0
               /\ networks' = IF out = "created"
                              THEN [networks EXCEPT ![networkName] = @ + 1]
                              ELSE networks
               /\ IF out = "other" THEN Panic(p, "network")
                  ELSE Goto(p, "probe") /\ fs' = fs
               /\ Did(p, "networkCreate")
               /\ UNCHANGED <<proxyRunning, proxyInitialized, routes, stacks,
                              remoteBranches, locals, fsAtStart, runs, resolver, stdout, listed, caddyStarts, raced>>

\* run, lines 172-193.  A checkNetworkExists error panics before any handler
\* is deferred.  The engine refuses to create a network whose name is taken
\* ("exit status 1"); a create can also fail for another reason.
NetworkStage(p) ==
  /\ pc[p] = "network"
  /\ \E cmdOk \in BOOLEAN, parsable \in BOOLEAN :
       LET output == IF parsable THEN NetworkLs(networks) ELSE <<"">>
           r == checkNetworkExists(networkName, cmdOk, output)
       IN IF r.err
          THEN /\ Panic(p, "network")
               /\ UNCHANGED <<hostRest, locals, hist>>
          ELSE IF r.exists
          THEN /\ Goto(p, "probe")
               /\ Did(p, "networkFound")
               /\ UNCHANGED <<fs, hostRest, locals, fsAtStart, runs, resolver, stdout, listed, caddyStarts, raced>>
          ELSE \E out \in {"created", "exit status 1", "other"} :
               /\ (out = "created") => networks[networkName] = 0
               /\ networks' = IF out = "created"
                              THEN [networks EXCEPT ![networkName] = @ + 1]
                              ELSE networks
               /\ Goto(p, "probe")
               /\ Did(p, "networkCreate")
               /\ UNCHANGED <<fs, proxyRunning, proxyInitialized, routes, stacks,
                              remoteBranches, locals, fsAtStart, runs, resolver, stdout, listed, caddyStarts, raced>>

\* ------------------------------------------------------------- proxy stage
ProxyHandler == [scope |-> "proxy", dir |-> caddyConfig]

\* line 218: `if !caddy_running`
BootstrapNeeded_Always(running) == TRUE
BootstrapNeeded(running) == ~running

\* the invocation found no proxy and has not yet issued the stack start
Bootstrapping(q) ==
  pc[q] \in {"caddyMkdir", "caddyfile", "caddyRender", "caddyWrite", "caddyChdir",
             "caddyCerts", "caddyUp"}

ProbeAdmin_Unreachable(p) ==
  /\ pc[p] = "probe"
  /\ defers' = [defers EXCEPT ![p] = Append(@, ProxyHandler)]
  /\ caddy_running' = [caddy_running EXCEPT ![p] = FALSE]
  /\ Goto(p, "caddyMkdir")
  /\ Did(p, "caddyAbsent")
  /\ raced' = (raced \/ (~proxyRunning /\ \E q \in Procs \ {p} : Bootstrapping(q)))
  /\ UNCHANGED <<fs, hostRest, args, o, inputCertsDir, gitopsName, cwd, token, compose,
                 fsAtStart, runs, resolver, stdout, listed, caddyStarts>>

\* run, lines 199-218: defer the proxy recover handler, probe the admin
\* endpoint.
ProbeAdmin(p) ==
  /\ pc[p] = "probe"
  /\ defers' = [defers EXCEPT ![p] = Append(@, ProxyHandler)]
  /\ caddy_running' = [caddy_running EXCEPT ![p] = proxyRunning]
  /\ Goto(p, IF BootstrapNeeded(proxyRunning) THEN "caddyMkdir" ELSE "certs")
  /\ Did(p, IF proxyRunning THEN "caddyFound" ELSE "caddyAbsent")
  /\ raced' = (raced \/ (~proxyRunning /\ \E q \in Procs \ {p} : Bootstrapping(q)))
  /\ UNCHANGED <<fs, hostRest, args, o, inputCertsDir, gitopsName, cwd, token, compose,
                 fsAtStart, runs, resolver, stdout, listed, caddyStarts>>

\* lines 220-222
MkdirCaddyConfig(p) ==
  FsStep(p, "caddyMkdir", "caddyfile", "return", MkdirAll(fs, caddyConfig))

\* lines 225-234
WriteCaddyfile(p) ==
  FsStep(p, "caddyfile", "caddyRender", "panic",
         WriteFile(fs, caddyConfig \o <<"Caddyfile">>, "caddyfile"))

\* lines 236-239: dockercompose.CreateCaddyDockerComposeFile
CreateCaddyDockerComposeFile(p) ==
  FsStep(p, "caddyRender", "caddyWrite", "panic", fs)

\* lines 241-244
WriteCaddyCompose(p) ==
  FsStep(p, "caddyWrite", "caddyChdir", "panic",
         WriteFile(fs, caddyConfig \o <<"docker-compose.yml">>, "caddy-compose"))

\* lines 246-249
ChdirCaddy(p) ==
  /\ pc[p] = "caddyChdir"
  /\ \E ok \in BOOLEAN :
       IF ok
       THEN /\ IsDir(fs, caddyConfig)
            /\ cwd' = [cwd EXCEPT ![p] = caddyConfig]
            /\ Goto(p, "caddyCerts")
            /\ Did(p, "caddyChdir")
            /\ UNCHANGED <<fs, hostRest, args, o, caddy_running, inputCertsDir,
                           gitopsName, defers, token, compose, fsAtStart, runs, resolver, stdout, listed, caddyStarts, raced>>
       ELSE /\ Panic(p, "caddyChdir")
            /\ UNCHANGED <<hostRest, locals, hist>>

\* lines 259-264
MkdirCaddyCerts(p) ==
  \/ /\ pc[p] = "caddyCerts"
     /\ Exists(fs, caddyCertsDir)
     /\ Goto(p, "caddyUp")
     /\ UNCHANGED <<fs, hostRest, locals, hist>>
  \/ /\ ~Exists(fs, caddyCertsDir)
     /\ FsStep(p, "caddyCerts", "caddyUp", "return", MkdirAll(fs, caddyCertsDir))

\* lines 251-271: `docker compose -p bitswan-caddy up -d` in the working
\* directory.
CaddyComposeUp(p) ==
  /\ pc[p] = "caddyUp"
  /\ \E ok \in BOOLEAN :
       IF ok
       THEN /\ Exists(fs, cwd[p] \o <<"docker-compose.yml">>)
            /\ proxyRunning' = TRUE
            /\ Goto(p, "caddyInit")
            /\ caddyStarts' = caddyStarts + 1
            /\ Did(p, "caddyUp")
            /\ UNCHANGED <<fs, networks, proxyInitialized, routes, stacks,
                           remoteBranches, locals, fsAtStart, runs, resolver, stdout,
                           listed, raced>>
       ELSE /\ ReturnErr(p, "caddyUp")
            /\ UNCHANGED <<hostRest, locals, hist>>

\* lines 273-280: caddyapi.InitCaddy after the settle delay
InitCaddy(p) ==
  /\ pc[p] = "caddyInit"
  /\ \E ok \in BOOLEAN :
       IF ok
       THEN /\ proxyInitialized' = TRUE
            /\ Goto(p, "certs")
            /\ Did(p, "caddyInit")
            /\ UNCHANGED <<fs, networks, proxyRunning, routes, stacks,
                           remoteBranches, locals, fsAtStart, runs, resolver, stdout, listed, caddyStarts, raced>>
       ELSE /\ Panic(p, "caddyInit")
            /\ UNCHANGED <<hostRest, locals, hist>>

\* ------------------------------------------------------- certificate stage
KeyFile == "_wildcard.demo.example.com-key.pem"    \* "_wildcard.%s-key.pem"
CertFile == "_wildcard.demo.example.com.pem"       \* "_wildcard.%s.pem"

Rename(f, from, to) ==
  [q \in (DOMAIN f \ {from}) \cup {to} |-> IF q = to THEN f[from] ELSE f[q]]

GenFailures == {"none", "mkdirTemp", "getwd", "chdir", "mkcert", "renameKey", "renameCert"}

generateWildcardCerts_NoRestore(f, wd, tempDir, failAt) ==
  LET t == DirPath(tempDir)
      f1 == MkdirAll(f, t)
      f2 == WriteFile(WriteFile(f1, t \o <<KeyFile>>, "key"), t \o <<CertFile>>, "chain")
      f3 == Rename(f2, t \o <<KeyFile>>, t \o <<"private-key.pem">>)
      f4 == Rename(f3, t \o <<CertFile>>, t \o <<"full-chain.pem">>)
  IN CASE failAt = "mkdirTemp"  -> [fs |-> f,  cwd |-> wd, dir |-> "", err |-> TRUE]
       [] failAt = "getwd"      -> [fs |-> f1, cwd |-> wd, dir |-> "", err |-> TRUE]
       [] failAt = "chdir"      -> [fs |-> f1, cwd |-> wd, dir |-> "", err |-> TRUE]
       [] failAt = "mkcert"     -> [fs |-> f1, cwd |-> t,  dir |-> "", err |-> TRUE]
       [] failAt = "renameKey"  -> [fs |-> f2, cwd |-> t,  dir |-> "", err |-> TRUE]
       [] failAt = "renameCert" -> [fs |-> f3, cwd |-> t,  dir |-> "", err |-> TRUE]
       [] OTHER                 -> [fs |-> f4, cwd |-> t,  dir |-> tempDir, err |-> FALSE]

\* generateWildcardCerts(domain), lines 120-161, in working directory wd with
\* MkdirTemp returning tempDir; failAt is the call that fails.  The deferred
\* os.Chdir(originalDir) runs on every return after line 139; its error is
\* dropped.
generateWildcardCerts(f, wd, tempDir, failAt) ==
  LET t == DirPath(tempDir)
      f1 == MkdirAll(f, t)
      f2 == WriteFile(WriteFile(f1, t \o <<KeyFile>>, "key"), t \o <<CertFile>>, "chain")
      f3 == Rename(f2, t \o <<KeyFile>>, t \o <<"private-key.pem">>)
      f4 == Rename(f3, t \o <<CertFile>>, t \o <<"full-chain.pem">>)
      back == IF Exists(f, wd) THEN wd ELSE t     \* defer os.Chdir(originalDir)
  IN CASE failAt = "mkdirTemp"  -> [fs |-> f,  cwd |-> wd,   dir |-> "", err |-> TRUE]
       [] failAt = "getwd"      -> [fs |-> f1, cwd |-> wd,   dir |-> "", err |-> TRUE]
       [] failAt = "chdir"      -> [fs |-> f1, cwd |-> wd,   dir |-> "", err |-> TRUE]
       [] failAt = "mkcert"     -> [fs |-> f1, cwd |-> back, dir |-> "", err |-> TRUE]
       [] failAt = "renameKey"  -> [fs |-> f2, cwd |-> back, dir |-> "", err |-> TRUE]
       [] failAt = "renameCert" -> [fs |-> f3, cwd |-> back, dir |-> "", err |-> TRUE]
       [] OTHER                 -> [fs |-> f4, cwd |-> back, dir |-> tempDir, err |-> FALSE]

\* run, lines 285-293
GenerateCerts(p) ==
  /\ pc[p] = "certs"
  /\ \E dir \in CertsDirs, mk \in BOOLEAN :
       /\ mk => dir = ""      \* with --mkcerts, --certs-dir is overwritten unread
       /\ IF ~mk
          THEN /\ inputCertsDir' = [inputCertsDir EXCEPT ![p] = dir]
               /\ Goto(p, "install")
               /\ UNCHANGED <<fs, hostRest, args, o, caddy_running, gitopsName,
                              defers, cwd, token, compose, hist>>
          ELSE \E failAt \in GenFailures :
               LET r == generateWildcardCerts(fs, cwd[p], TempDirs[runs], failAt)
               IN /\ (failAt # "getwd") => Exists(fs, cwd[p])
                  /\ cwd' = [cwd EXCEPT ![p] = r.cwd]
                  /\ IF r.err
                     THEN /\ LET u == RunDefers(defers[p], FALSE, r.fs)
                             IN Finish(p, "error", "mkcerts", u.fs, u.cleaned)
                          /\ UNCHANGED <<hostRest, args, o, caddy_running,
                                         inputCertsDir, gitopsName, defers, token, compose, hist>>
                     ELSE /\ fs' = r.fs
                          /\ inputCertsDir' = [inputCertsDir EXCEPT ![p] = r.dir]
                          /\ Goto(p, "install")
                          /\ Did(p, "mkcerts")
                          /\ UNCHANGED <<hostRest, args, o, caddy_running, gitopsName,
                                         defers, token, compose, fsAtStart, runs, resolver, stdout, listed, caddyStarts, raced>>

EntryOrder == <<"full-chain.pem", "old", "private-key.pem">>

\* os.ReadDir: the entries of d, sorted by filename.
ReadDir(f, d) ==
  LET IsEntry(n) == Exists(f, d \o <<n>>)
  IN SelectSeq(EntryOrder, IsEntry)

\* the copy loop, lines 316-332; the read or the write of entry failK fails
RECURSIVE CopyCerts_SkipLast(_, _, _, _, _, _)
CopyCerts_SkipLast(f, src, dst, certs, i, failK) ==
  IF i >= Len(certs) THEN [fs |-> f, err |-> "none"]
  ELSE IF IsDir(f, src \o <<certs[i]>>)
       THEN CopyCerts_SkipLast(f, src, dst, certs, i + 1, failK)
  ELSE IF i = failK THEN [fs |-> f, err |-> "panic"]
  ELSE CopyCerts_SkipLast(WriteFile(f, dst \o <<certs[i]>>, f[src \o <<certs[i]>>].v),
                          src, dst, certs, i + 1, failK)

RECURSIVE CopyCerts(_, _, _, _, _, _)
CopyCerts(f, src, dst, certs, i, failK) ==
  IF i > Len(certs) THEN [fs |-> f, err |-> "none"]
  ELSE IF IsDir(f, src \o <<certs[i]>>)
       THEN CopyCerts(f, src, dst, certs, i + 1, failK)
  ELSE IF i = failK THEN [fs |-> f, err |-> "panic"]
  ELSE CopyCerts(WriteFile(f, dst \o <<certs[i]>>, f[src \o <<certs[i]>>].v),
                 src, dst, certs, i + 1, failK)

InstallFailures == {"none", "mkdirCerts", "mkdirDomain", "readDir", "copy"}

\* the install step, lines 295-335, from directory input
InstallCerts(f, input, failAt, failK) ==
  LET src == DirPath(input)
      certsDir == caddyCertsDir \o <<Domain>>
      f1 == IF Exists(f, caddyCertsDir) THEN f ELSE MkdirAll(f, caddyCertsDir)
      f2 == IF Exists(f1, certsDir) THEN f1 ELSE MkdirAll(f1, certsDir)
  IN CASE failAt = "mkdirCerts"  -> [fs |-> f,  err |-> "return"]
       [] failAt = "mkdirDomain" -> [fs |-> f1, err |-> "return"]
       [] failAt = "readDir"     -> [fs |-> f2, err |-> "panic"]
       [] failAt = "copy"        -> CopyCerts(f2, src, certsDir, ReadDir(f2, src), 1, failK)
       [] OTHER                  -> CopyCerts(f2, src, certsDir, ReadDir(f2, src), 1, 0)

InstallCertsStep(p) ==
  /\ pc[p] = "install"
  /\ \/ /\ inputCertsDir[p] = ""
        /\ Goto(p, "name")
        /\ UNCHANGED <<fs, hostRest, locals, hist>>
     \/ /\ inputCertsDir[p] # ""
        /\ \E failAt \in InstallFailures, failK \in 1..Len(EntryOrder) :
             LET r == InstallCerts(fs, inputCertsDir[p], failAt, failK)
             IN /\ (failAt = "mkdirCerts") => ~Exists(fs, caddyCertsDir)
                /\ (failAt = "mkdirDomain") => ~Exists(fs, caddyCertsDir \o <<Domain>>)
                /\ (failAt # "readDir") => Exists(fs, DirPath(inputCertsDir[p]))
                /\ (failAt = "copy") => r.err = "panic"
                /\ (failAt # "copy") => failK = 1
                /\ IF r.err = "none"
                   THEN /\ fs' = r.fs
                        /\ Goto(p, "name")
                        /\ Did(p, "install")
                        /\ UNCHANGED <<hostRest, locals, fsAtStart, runs, resolver, stdout, listed, caddyStarts, raced>>
                   ELSE /\ LET u == RunDefers(defers[p], r.err = "panic", r.fs)
                           IN Finish(p, IF r.err = "panic"
                                        THEN ResultAfterPanic(u.panicking)
                                        ELSE "error",
                                     "install", u.fs, u.cleaned)
                        /\ UNCHANGED <<hostRest, locals, hist>>

\* --------------------------------------------------------- workspace stage
\* lines 337-341
SelectName(a) == IF Len(a) = 1 THEN a[1] ELSE "gitops"

gitopsConfigOf(name) == bitswanConfig \o <<name>>
gitopsConfig(p) == gitopsConfigOf(gitopsName[p])
gitopsWorkspace(p) == gitopsConfig(p) \o <<"workspace">>
gitopsWorktree(p) == gitopsConfig(p) \o <<"gitops">>
secretsDir(p) == gitopsConfig(p) \o <<"secrets">>
gitopsDeployment(p) == gitopsConfig(p) \o <<"deployment">>
dockerComposePath(p) == gitopsDeployment(p) \o <<"docker-compose.yml">>

WorkspaceHandler(name) == [scope |-> "workspace", dir |-> gitopsConfigOf(name)]

\* variant: the name conflict is raised as a panic, so the handler just
\* deferred recovers it and removes the directory that was found.
ConflictCheck_Panics(p) ==
  /\ pc[p] = "name"
  /\ \E a \in ArgLists :
       LET name == SelectName(a)
           ds == Append(defers[p], WorkspaceHandler(name))
       IN /\ args' = [args EXCEPT ![p] = a]
          /\ gitopsName' = [gitopsName EXCEPT ![p] = name]
          /\ defers' = [defers EXCEPT ![p] = ds]
          /\ IF Exists(fs, gitopsConfigOf(name))
             THEN LET r == RunDefers(ds, TRUE, fs)
                  IN Finish(p, ResultAfterPanic(r.panicking), "conflict", r.fs, r.cleaned)
             ELSE /\ Goto(p, "mkdirGitops")
                  /\ fs' = fs
          /\ UNCHANGED <<hostRest, o, caddy_running, inputCertsDir, cwd, token, compose, hist>>

\* lines 337-355: pick the name, defer the workspace recover handler, reject
\* a name whose directory exists.
ConflictCheck(p) ==
  /\ pc[p] = "name"
  /\ \E a \in ArgLists :
       LET name == SelectName(a)
           ds == Append(defers[p], WorkspaceHandler(name))
       IN /\ args' = [args EXCEPT ![p] = a]
          /\ gitopsName' = [gitopsName EXCEPT ![p] = name]
          /\ defers' = [defers EXCEPT ![p] = ds]
          /\ IF Exists(fs, gitopsConfigOf(name))
             THEN LET r == RunDefers(ds, FALSE, fs)
                  IN Finish(p, "error", "conflict", r.fs, r.cleaned)
             ELSE /\ Goto(p, "mkdirGitops")
                  /\ fs' = fs
          /\ UNCHANGED <<hostRest, o, caddy_running, inputCertsDir, cwd, token, compose, hist>>

\* lines 357-359
MkdirGitopsConfig(p) ==
  FsStep(p, "mkdirGitops", "workspace", "return", MkdirAll(fs, gitopsConfig(p)))

\* lines 362-374: clone the remote, or create the workspace directory
CloneOrMkdirWorkspace(p) ==
  /\ pc[p] = "workspace"
  /\ \E remote \in RemoteRepos, ok \in BOOLEAN :
       /\ o' = [o EXCEPT ![p].remoteRepo = remote]
       /\ IF ok
          THEN /\ Exists(fs, gitopsConfig(p))
               /\ fs' = Mkdir(fs, gitopsWorkspace(p))
               /\ Goto(p, IF remote # "" THEN "chownWorkspace" ELSE "gitInit")
               /\ Did(p, IF remote # "" THEN "clone" ELSE "mkdirWorkspace")
               /\ UNCHANGED <<hostRest, args, caddy_running, inputCertsDir,
                              gitopsName, defers, cwd, token, compose, fsAtStart, runs, resolver, stdout, listed, caddyStarts, raced>>
          ELSE /\ Fail(p, IF remote # "" THEN "clone" ELSE "mkdirWorkspace",
                       IF remote # "" THEN "panic" ELSE "return")
               /\ UNCHANGED <<hostRest, args, caddy_running, inputCertsDir,
                              gitopsName, defers, cwd, token, compose, hist>>

\* lines 375-384: git init in the workspace
GitInit(p) == FsStep(p, "gitInit", "chownWorkspace", "panic", fs)

\* changeOwnership(directory, uid, gid), lines 98-118: when chown fails, the
\* directory's owner decides (info.Sys() is a *syscall.Stat_t on this build).
changeOwnership(chownOk, statOk, owner, uid) ==
  IF chownOk THEN "nil"
  ELSE IF ~statOk THEN "error"
  ELSE IF owner = uid THEN "nil"
  ELSE "error"

WorkspaceUid == 1000

ChownStep(p, at, next) ==
  /\ pc[p] = at
  /\ \E chownOk \in BOOLEAN, statOk \in BOOLEAN, owner \in Uids :
       /\ chownOk => (statOk /\ owner = WorkspaceUid)   \* drawn only when read
       /\ IF changeOwnership(chownOk, statOk, owner, WorkspaceUid) = "nil"
          THEN /\ Goto(p, next)
               /\ Did(p, at)
               /\ UNCHANGED <<fs, hostRest, locals, fsAtStart, runs, resolver, stdout, listed, caddyStarts, raced>>
          ELSE /\ ReturnErr(p, at)
               /\ UNCHANGED <<hostRest, locals, hist>>

\* lines 387-389
ChownWorkspace(p) == ChownStep(p, "chownWorkspace", "worktree")

\* line 393: git worktree add --orphan -b <branch> <gitopsWorktree>
WorktreeBranch_Fixed(name) == "gitops"
WorktreeBranch(name) == name

\* lines 391-399
WorktreeAdd(p) ==
  /\ pc[p] = "worktree"
  /\ \E ok \in BOOLEAN :
       IF ok
       THEN /\ Exists(fs, gitopsWorkspace(p))
            /\ fs' = [q \in DOMAIN fs \cup {gitopsWorktree(p)} |->
                       IF q = gitopsWorktree(p)
                       THEN [k |-> "worktree", v |-> WorktreeBranch(gitopsName[p])]
                       ELSE fs[q]]
            /\ Goto(p, "safeDir")
            /\ Did(p, "worktree")
            /\ UNCHANGED <<hostRest, locals, fsAtStart, runs, resolver, stdout, listed, caddyStarts, raced>>
       ELSE /\ Panic(p, "worktree")
            /\ UNCHANGED <<hostRest, locals, hist>>

\* lines 401-405: git config --global --add safe.directory
SafeDirectory(p) ==
  /\ pc[p] = "safeDir"
  /\ \E ok \in BOOLEAN :
       IF ok
       THEN /\ Goto(p, IF o[p].remoteRepo # "" THEN "commit" ELSE "secrets")
            /\ Did(p, "safeDir")
            /\ UNCHANGED <<fs, hostRest, locals, fsAtStart, runs, resolver, stdout, listed, caddyStarts, raced>>
       ELSE /\ Panic(p, "safeDir")
            /\ UNCHANGED <<hostRest, locals, hist>>

\* lines 408-413
EmptyCommit(p) == FsStep(p, "commit", "push", "panic", fs)

\* lines 415-420: git push -u origin <gitopsName>
PushUpstream(p) ==
  /\ pc[p] = "push"
  /\ \E ok \in BOOLEAN :
       IF ok
       THEN /\ remoteBranches' = remoteBranches \cup {gitopsName[p]}
            /\ Goto(p, "secrets")
            /\ Did(p, "push")
            /\ UNCHANGED <<fs, networks, proxyRunning, proxyInitialized, routes,
                           stacks, locals, fsAtStart, runs, resolver, stdout, listed, caddyStarts, raced>>
       ELSE /\ Panic(p, "push")
            /\ UNCHANGED <<hostRest, locals, hist>>

\* lines 425-429
MkdirSecrets(p) ==
  FsStep(p, "secrets", "chownSecrets", "return", MkdirAll(fs, secretsDir(p)))

\* lines 431-433
ChownSecrets(p) == ChownStep(p, "chownSecrets", "gitopsImage")

\* -------------------------------------------------------- deployment stage
\* lines 435-451: an image given by flag is used as is; otherwise
\* dockerhub.GetLatestDockerHubVersion is asked and its error panics.
ResolveImage_FallbackLatest(p, at, next) ==
  /\ pc[p] = at
  /\ \E image \in Images, ok \in BOOLEAN :
       /\ (image # "") => ok
       /\ Goto(p, next)
       /\ did' = [did EXCEPT ![p] = IF ok THEN @ ELSE @ \cup {"lookupFailed"}]
       /\ UNCHANGED <<fs, hostRest, locals, fsAtStart, runs, resolver, stdout, listed, caddyStarts, raced>>

ResolveImage(p, at, next) ==
  /\ pc[p] = at
  /\ \E image \in Images, ok \in BOOLEAN :
       /\ (image # "") => ok
       /\ IF ok
          THEN /\ Goto(p, next)
               /\ UNCHANGED <<fs, hostRest, locals, hist>>
          ELSE /\ Panic(p, at)
               /\ Did(p, "lookupFailed")
               /\ UNCHANGED <<hostRest, locals, fsAtStart, runs, resolver, stdout, listed, caddyStarts, raced>>

ResolveGitopsImage(p) == ResolveImage(p, "gitopsImage", "editorImage")
ResolveEditorImage(p) == ResolveImage(p, "editorImage", "mkdirDeployment")

\* lines 453-457
MkdirDeployment(p) ==
  FsStep(p, "mkdirDeployment", "routes", "return", MkdirAll(fs, gitopsDeployment(p)))

\* lines 459-462: caddyapi.AddCaddyRecords(gitopsName, domain, certs, noIde)
AddCaddyRecords(p) ==
  /\ pc[p] = "routes"
  /\ \E noIde \in BOOLEAN, ok \in BOOLEAN :
       /\ o' = [o EXCEPT ![p].noIde = noIde]
       /\ IF ok
          THEN /\ proxyRunning
               /\ routes' = routes \cup {gitopsName[p]}
               /\ Goto(p, "render")
               /\ Did(p, "routes")
               /\ UNCHANGED <<fs, networks, proxyRunning, proxyInitialized, stacks,
                              remoteBranches, args, caddy_running, inputCertsDir,
                              gitopsName, defers, cwd, token, compose, fsAtStart, runs, resolver, stdout, listed, caddyStarts, raced>>
          ELSE /\ Panic(p, "routes")
               /\ UNCHANGED <<hostRest, args, caddy_running, inputCertsDir,
                              gitopsName, defers, cwd, token, compose, hist>>

\* "KEY=value" as a sequence of symbols: the key, "=", the characters of value
EnvVar(key, value) == <<key, "=">> \o value

\* the name of the editor service, "bitswan-editor-" + workspace (list.go 113)
editorService(workspace) == <<"bitswan-editor-", workspace>>

\* dockercompose.CreateDockerComposeFile (ComposeRenderer.Workspace): the
\* stack definition of the workspace, carrying the domain and, as
\* BITSWAN_DEPLOY_SECRET, the token it returns.
RenderWorkspaceCompose(name, domain, tok) ==
  [services |->
     (editorService(name) :>
        [environment |-> <<EnvVar("BITSWAN_DOMAIN", <<domain>>),
                           EnvVar("BITSWAN_DEPLOY_SECRET", tok)>>])]

\* lines 464-474: dockercompose.CreateDockerComposeFile returns the compose
\* text and the token it embedded
CreateDockerComposeFile(p) ==
  /\ pc[p] = "render"
  /\ \E tok \in Tokens, ok \in BOOLEAN :
       IF ok
       THEN /\ token' = [token EXCEPT ![p] = tok]
            /\ compose' = [compose EXCEPT ![p] =
                             RenderWorkspaceCompose(gitopsName[p], Domain, tok)]
            /\ Goto(p, "writeCompose")
            /\ Did(p, "render")
            /\ UNCHANGED <<fs, hostRest, args, o, caddy_running, inputCertsDir,
                           gitopsName, defers, cwd, fsAtStart, runs, resolver, stdout, listed, caddyStarts, raced>>
       ELSE /\ tok = <<"t", "1">>
            /\ Panic(p, "render")
            /\ UNCHANGED <<hostRest, locals, hist>>

\* lines 476-479
WriteCompose(p) ==
  FsStep(p, "writeCompose", "chdir", "panic",
         WriteFile(fs, dockerComposePath(p), compose[p]))

\* lines 481-484
ChdirDeployment(p) ==
  /\ pc[p] = "chdir"
  /\ \E ok \in BOOLEAN :
       IF ok
       THEN /\ Exists(fs, gitopsDeployment(p))
            /\ cwd' = [cwd EXCEPT ![p] = gitopsDeployment(p)]
            /\ Goto(p, "up")
            /\ Did(p, "chdir")
            /\ UNCHANGED <<fs, hostRest, args, o, caddy_running, inputCertsDir,
                           gitopsName, defers, token, compose, fsAtStart, runs, resolver, stdout, listed, caddyStarts, raced>>
       ELSE /\ Panic(p, "chdir")
            /\ UNCHANGED <<hostRest, locals, hist>>

\* line 488: gitopsName + "-site"
projectName(name) == <<name, "-site">>

\* lines 488-506: docker compose -p <gitopsName>-site up -d
ComposeUp(p) ==
  /\ pc[p] = "up"
  /\ \E ok \in BOOLEAN :
       IF ok
       THEN /\ Exists(fs, cwd[p] \o <<"docker-compose.yml">>)
            /\ stacks' = stacks \cup {projectName(gitopsName[p])}
            /\ Goto(p, "password")
            /\ Did(p, "up")
            /\ UNCHANGED <<fs, networks, proxyRunning, proxyInitialized, routes,
                           remoteBranches, locals, fsAtStart, runs, resolver, stdout, listed, caddyStarts, raced>>
       ELSE /\ Panic(p, "up")
            /\ UNCHANGED <<hostRest, locals, hist>>

\* lines 510-526: read the editor password unless --no-ide, print, return nil
EditorPasswordAndReturn(p) ==
  /\ pc[p] = "password"
  /\ \E ok \in BOOLEAN :
       /\ o[p].noIde => ok
       /\ IF ok
          THEN /\ ReturnNil(p)
               /\ stdout' = [stdout EXCEPT ![p] =
                              [id |-> gitopsName[p], secret |-> token[p]]]
               /\ UNCHANGED <<hostRest, locals, did, fsAtStart, runs, resolver, listed,
                              caddyStarts, raced>>
          ELSE /\ Panic(p, "password")
               /\ UNCHANGED <<hostRest, locals, hist>>

\* ========================================================== list command
\* cmd/list.go.  strings.HasPrefix(envVar, "BITSWAN_DEPLOY_SECRET="), line 130
HasDeploySecretPrefix(envVar) ==
  Len(envVar) >= 2 /\ envVar[1] = "BITSWAN_DEPLOY_SECRET" /\ envVar[2] = "="

\* index of the first sep in s at or after i (Len(s) + 1 when there is none)
RECURSIVE IndexFrom(_, _, _)
IndexFrom(s, sep, i) ==
  IF i > Len(s) \/ s[i] = sep THEN i ELSE IndexFrom(s, sep, i + 1)

\* strings.Split(s, "="): every "=" separates
RECURSIVE SplitAll(_, _)
SplitAll(s, sep) ==
  LET i == IndexFrom(s, sep, 1)
  IN IF i > Len(s) THEN <<s>>
     ELSE <<SubSeq(s, 1, i - 1)>> \o SplitAll(SubSeq(s, i + 1, Len(s)), sep)

\* strings.SplitN(s, "=", 2), line 131: at most two parts, the second is the
\* unsplit remainder
SplitN2_Unbounded(s, sep) == SplitAll(s, sep)

SplitN2(s, sep) ==
  LET i == IndexFrom(s, sep, 1)
  IN IF i > Len(s) THEN <<s>>
     ELSE <<SubSeq(s, 1, i - 1), SubSeq(s, i + 1, Len(s))>>

\* the loop of lines 124-136 over the environment list
RECURSIVE FindDeploySecret(_, _)
FindDeploySecret(env, i) ==
  IF i > Len(env) THEN [secret |-> <<>>, err |-> "GitOps secret not found"]
  ELSE LET parts == SplitN2(env[i], "=")
       IN IF HasDeploySecretPrefix(env[i]) /\ Len(parts) = 2
          THEN [secret |-> parts[2], err |-> ""]
          ELSE FindDeploySecret(env, i + 1)

\* list.go line 24: the directory `list` reads
workspacesDir == bitswanConfig \o <<"workspaces">>

\* entry.IsDir(), line 39
EntryIsDir(e) == e.k \in {"dir", "worktree"}

\* the names newListCmd prints for directory d (lines 32-42): the entries of
\* d that are directories
ListNames(f, d) ==
  {q[Len(q)] : q \in {x \in DOMAIN f : /\ Len(x) = Len(d) + 1
                                        /\ IsPrefix(d, x)
                                        /\ EntryIsDir(f[x])}}

\* newListCmd RunE, lines 23-60, on filesystem f
newListCmd(f, readOk) ==
  IF ~Exists(f, workspacesDir)
  THEN [err |-> "workspaces directory not found", names |-> {}]
  ELSE IF ~readOk
  THEN [err |-> "failed to read workspaces directory", names |-> {}]
  ELSE [err |-> "", names |-> ListNames(f, workspacesDir)]

\* `list` run after an init that succeeded, while no init is in flight
List ==
  /\ \A p \in Procs : pc[p] \in {"idle", "done"}
  /\ \E p \in Procs : pc[p] = "done" /\ result[p] = "nil" /\ failedAt[p] = "none"
  /\ listed = NotListed
  /\ \E readOk \in BOOLEAN :
       /\ ~Exists(fs, workspacesDir) => readOk
       /\ listed' = newListCmd(fs, readOk)
  /\ UNCHANGED <<fs, hostRest, pc, locals, result, failedAt, cleaned, did,
                 fsAtStart, runs, resolver, stdout, caddyStarts, raced>>

\* getGitOpsSecret(workspace, configDir), lines 92-139, on filesystem f;
\* yaml.Unmarshal yields the document the file holds.
getGitOpsSecret(f, workspace, configDir) ==
  LET composeFilePath == configDir \o <<workspace, "deployment", "docker-compose.yml">>
  IN IF ~Exists(f, composeFilePath) \/ f[composeFilePath].k # "file"
     THEN [secret |-> <<>>, err |-> "read"]
     ELSE LET services == f[composeFilePath].v.services
          IN IF editorService(workspace) \notin DOMAIN services
             THEN [secret |-> <<>>, err |-> "editor service not found"]
             ELSE FindDeploySecret(services[editorService(workspace)].environment, 1)

Next ==
  \/ \E p \in SerialProcs :
       \/ Start(p) \/ MkConfigRoot(p) \/ NetworkStage(p)
       \/ ProbeAdmin(p) \/ MkdirCaddyConfig(p) \/ WriteCaddyfile(p)
       \/ CreateCaddyDockerComposeFile(p) \/ WriteCaddyCompose(p) \/ ChdirCaddy(p)
       \/ MkdirCaddyCerts(p) \/ CaddyComposeUp(p) \/ InitCaddy(p)
       \/ GenerateCerts(p) \/ InstallCertsStep(p)
       \/ ConflictCheck(p) \/ MkdirGitopsConfig(p) \/ CloneOrMkdirWorkspace(p)
       \/ GitInit(p) \/ ChownWorkspace(p) \/ WorktreeAdd(p) \/ SafeDirectory(p)
       \/ EmptyCommit(p) \/ PushUpstream(p) \/ MkdirSecrets(p) \/ ChownSecrets(p)
       \/ ResolveGitopsImage(p) \/ ResolveEditorImage(p) \/ MkdirDeployment(p)
       \/ AddCaddyRecords(p) \/ CreateDockerComposeFile(p) \/ WriteCompose(p)
       \/ ChdirDeployment(p) \/ ComposeUp(p) \/ EditorPasswordAndReturn(p)
  \/ List

Spec == Init /\ [][Next]_vars

\* Two invocations in flight at once, through the network and proxy stages
\* (lines 164-283).
RaceNext ==
  \E p \in Procs :
    \/ Start(p) \/ MkConfigRoot(p) \/ NetworkStage(p)
    \/ ProbeAdmin(p) \/ MkdirCaddyConfig(p) \/ WriteCaddyfile(p)
    \/ CreateCaddyDockerComposeFile(p) \/ WriteCaddyCompose(p) \/ ChdirCaddy(p)
    \/ MkdirCaddyCerts(p) \/ CaddyComposeUp(p) \/ InitCaddy(p)

SpecRace == Init /\ [][RaceNext]_vars

\* ===================================================== version resolver
\* internal/dockerhub/dockerhub.go.  A tag is a sequence of characters.
Digits == {"0", "1", "2", "3", "4", "5", "6", "7", "8", "9"}
HexDigits == Digits \cup {"a", "b", "c", "d", "e", "f", "A", "B", "C", "D", "E", "F"}

MaxTags == 3                 \* tags in one registry answer

TagLatest == <<"l", "a", "t", "e", "s", "t">>   \* "latest"
TagBad == <<"b", "a", "d", "-", "t", "a", "g">>   \* "bad-tag"
TagBuildA == <<"2", "0", "2", "4", "-", "1", "1", "-", "g", "i", "t", "-", "a", "b", "c", "1", "2", "3">>   \* "2024-11-git-abc123"
TagBuildB == <<"2", "0", "2", "5", "-", "1", "-", "g", "i", "t", "-", "F", "F">>   \* "2025-1-git-FF"
TagShortYear == <<"0", "2", "4", "-", "1", "1", "-", "g", "i", "t", "-", "a", "b", "c">>   \* "024-11-git-abc"
TagNoSerial == <<"2", "0", "2", "4", "-", "-", "g", "i", "t", "-", "a", "b", "c">>   \* "2024--git-abc"
TagNoHash == <<"2", "0", "2", "4", "-", "1", "1", "-", "g", "i", "t", "-">>   \* "2024-11-git-"
TagNotHex == <<"2", "0", "2", "4", "-", "1", "1", "-", "g", "i", "t", "-", "a", "b", "g">>   \* "2024-11-git-abg"
TagPrefixed == <<"v", "2", "0", "2", "4", "-", "1", "1", "-", "g", "i", "t", "-", "a", "b", "c">>   \* "v2024-11-git-abc"
TagSuffixed == <<"2", "0", "2", "4", "-", "1", "1", "-", "g", "i", "t", "-", "a", "b", "c", "-", "r", "c">>   \* "2024-11-git-abc-rc"

TagPool == {TagLatest, TagBad, TagBuildA, TagBuildB, TagShortYear, TagNoSerial,
            TagNoHash, TagNotHex, TagPrefixed, TagSuffixed}

\* first index >= i of s that is not in class (Len(s) + 1 when there is none)
RECURSIVE SkipWhile(_, _, _)
SkipWhile(s, i, class) ==
  IF i > Len(s) \/ s[i] \notin class THEN i ELSE SkipWhile(s, i + 1, class)

\* regexp.MatchString(`^\d{4}-\d+-git-[a-fA-F0-9]+$`, tag), line 29 and 32
MatchString(s) ==
  LET d4 == SkipWhile(s, 1, Digits)
      d == SkipWhile(s, 6, Digits)
      h == SkipWhile(s, d + 5, HexDigits)
  IN /\ d4 = 5
     /\ Len(s) >= 5 /\ s[5] = "-"
     /\ d > 6
     /\ Len(s) >= d + 4 /\ SubSeq(s, d, d + 4) = <<"-", "g", "i", "t", "-">>
     /\ h > d + 5
     /\ h = Len(s) + 1

\* the loop of lines 30-35: the first tag that matches, in the order of the
\* answer
RECURSIVE FirstMatch_LastWins(_, _)
FirstMatch_LastWins(tags, i) ==
  IF i > Len(tags) THEN [tag |-> <<>>, found |-> FALSE]
  ELSE LET rest == FirstMatch_LastWins(tags, i + 1)
       IN IF rest.found THEN rest
          ELSE IF MatchString(tags[i]) THEN [tag |-> tags[i], found |-> TRUE]
          ELSE rest

RECURSIVE FirstMatch(_, _)
FirstMatch(tags, i) ==
  IF i > Len(tags) THEN [tag |-> <<>>, found |-> FALSE]
  ELSE IF MatchString(tags[i]) THEN [tag |-> tags[i], found |-> TRUE]
  ELSE FirstMatch(tags, i + 1)

\* GetLatestBitswanGitopsVersion, lines 11-37, on the registry's response
GetLatestBitswanGitopsVersion(response) ==
  CASE response.kind = "httpError" -> [tag |-> TagLatest, err |-> "http"]
    [] response.kind = "readError" -> [tag |-> TagLatest, err |-> "read"]
    [] response.kind = "badJson"   -> [tag |-> TagLatest, err |-> "json"]
    [] response.kind = "noResults" -> [tag |-> <<>>, err |-> "panic"]
    [] OTHER ->
         LET m == FirstMatch(response.tags, 1)
         IN IF m.found THEN [tag |-> m.tag, err |-> ""]
            ELSE [tag |-> TagLatest, err |-> "No valid version found"]

TagLists == UNION {[1..n -> TagPool] : n \in 0..MaxTags}

Responses ==
  {[kind |-> k, tags |-> <<>>] : k \in {"httpError", "readError", "badJson", "noResults"}}
    \cup {[kind |-> "tags", tags |-> ts] : ts \in TagLists}

ResolverInit ==
  /\ HostInit
  /\ resolver \in {[pc |-> "call", response |-> r, tag |-> <<>>, err |-> ""] :
                     r \in Responses}

Resolve ==
  /\ resolver.pc = "call"
  /\ LET r == GetLatestBitswanGitopsVersion(resolver.response)
     IN resolver' = [resolver EXCEPT !.pc = "done", !.tag = r.tag, !.err = r.err]
  /\ UNCHANGED <<fs, hostRest, pc, locals, result, failedAt, cleaned, did,
                 fsAtStart, runs, stdout, listed, caddyStarts, raced>>

ResolverNext == Resolve

SpecResolver == ResolverInit /\ [][ResolverNext]_vars

\* ================================================================ claims
Returned(p) == pc[p] = "done"
Succeeded(p) == Returned(p) /\ result[p] = "nil" /\ failedAt[p] = "none"
\* the step that just made run leave
LeftNow(p) == pc[p] # "done" /\ pc'[p] = "done"
\* run left by a panic (recovered, or escaping)
Fatal(p) == result[p] = "crash" \/ (result[p] = "nil" /\ failedAt[p] # "none")

Subtree(f, d) == [q \in {x \in DOMAIN f : IsPrefix(d, x)} |-> f[q]]

ProxyBootstrapSteps == {"caddyMkdir", "caddyfile", "caddyRender", "caddyWrite",
                        "caddyChdir", "caddyCerts", "caddyUp", "caddyInit"}
AfterBaseConfigSteps == ProxyBootstrapSteps \ {"caddyMkdir", "caddyfile"}
WorkspaceSteps == {"clone", "mkdirWorkspace", "gitInit", "chownWorkspace",
                   "worktree", "safeDir", "commit", "push"}
SecretSteps == {"secrets", "chownSecrets"}
DeploymentSteps == {"gitopsImage", "editorImage", "mkdirDeployment", "routes",
                    "render", "writeCompose", "chdir", "up", "password"}

\* C1 (rollback completeness): when a deployment step fails after the
\* workspace and its secrets directory were provisioned, the workspace
\* config directory does not exist when run has returned.
C1_RollbackCompleteness ==
  \A p \in Procs :
    (Returned(p) /\ failedAt[p] \in DeploymentSteps) => ~Exists(fs, gitopsConfig(p))

\* C2 (exit status on fatal error): an invocation whose recover handler ran
\* a cleanup reports an error to its caller; none returns nil.
C2_FatalErrorReported ==
  \A p \in Procs : (Returned(p) /\ cleaned[p] # {}) => result[p] # "nil"

\* C3 (conflict guard): an invocation that ends with the conflict error has
\* left the filesystem as it found it and has made no mutation before the
\* check (no network create, no proxy bootstrap, no certificate material).
MutationsBeforeCheck ==
  ProxyBootstrapSteps \cup {"networkCreate", "mkcerts", "install"}

C3_ConflictGuard ==
  \A p \in Procs :
    (Returned(p) /\ failedAt[p] = "conflict") =>
      /\ result[p] = "error"
      /\ fs = fsAtStart[p]
      /\ did[p] \cap MutationsBeforeCheck = {}

\* C4 (proxy singleton): in an invocation whose probe found the admin
\* endpoint answering, no bootstrap step runs: the Caddyfile and the proxy
\* docker-compose.yml are not written, the proxy stack is not started and
\* InitCaddy is not called.
CaddyFiles == {caddyConfig \o <<"Caddyfile">>, caddyConfig \o <<"docker-compose.yml">>}

BootstrapSkipped(p) ==
  /\ did[p] \cap ProxyBootstrapSteps = {}
  /\ \A q \in CaddyFiles :
       Exists(fs, q) => (Exists(fsAtStart[p], q) /\ fs[q] = fsAtStart[p][q])

C4_ProxySingleton ==
  \A p \in SerialProcs :
    (pc[p] # "idle" /\ caddy_running[p]) => BootstrapSkipped(p)

\* C4 as stated: in addition, the proxy config directory is not created in
\* that invocation.
C4_ProxySingleton_AsStated ==
  \A p \in SerialProcs :
    (pc[p] # "idle" /\ caddy_running[p]) =>
      /\ BootstrapSkipped(p)
      /\ Exists(fs, caddyConfig) => Exists(fsAtStart[p], caddyConfig)

C4_Witness ==
  \E p \in SerialProcs :
    /\ Succeeded(p) /\ caddy_running[p]
    /\ Exists(fsAtStart[p], caddyConfig \o <<"Caddyfile">>)
    /\ proxyRunning

\* C5 (rollback independence): a failure in the workspace, secret or
\* deployment steps leaves the proxy config directory as it was, a failure
\* in the proxy bootstrap leaves every workspace directory as it was; no
\* invocation runs both cleanups, and a panic runs the cleanup of the stage
\* it was raised in.
WorkspaceStageSteps == WorkspaceSteps \cup SecretSteps \cup DeploymentSteps

C5_RollbackIndependence ==
  [][\A p \in Procs :
       LeftNow(p) =>
         /\ Cardinality(cleaned'[p]) <= 1
         /\ failedAt'[p] \in WorkspaceStageSteps \cup {"conflict", "mkdirGitops"} =>
              /\ "proxy" \notin cleaned'[p]
              /\ Subtree(fs', caddyConfig) = Subtree(fs, caddyConfig)
         /\ failedAt'[p] \in ProxyBootstrapSteps =>
              /\ "workspace" \notin cleaned'[p]
              /\ \A n \in Names :
                   Subtree(fs', gitopsConfigOf(n)) = Subtree(fs, gitopsConfigOf(n))
         /\ (Fatal(p)' /\ failedAt'[p] \in WorkspaceStageSteps) =>
              cleaned'[p] = {"workspace"}
         /\ (Fatal(p)' /\ failedAt'[p] \in ProxyBootstrapSteps) =>
              cleaned'[p] = {"proxy"}]_vars

C5_Witness ==
  \E p \in Procs :
    /\ Returned(p) /\ failedAt[p] \in WorkspaceStageSteps
    /\ cleaned[p] = {"workspace"}
    /\ Exists(fs, caddyConfig \o <<"Caddyfile">>)
    /\ ~Exists(fs, gitopsConfig(p))

\* C6 (proxy bootstrap rollback): when a bootstrap step after the Caddyfile
\* write fails, the proxy config directory is gone when run has returned.
C6_ProxyBootstrapRollback ==
  \A p \in Procs :
    (Returned(p) /\ failedAt[p] \in AfterBaseConfigSteps) => ~Exists(fs, caddyConfig)

\* C7 (workspace provisioning rollback): when a provisioning step after the
\* creation of the workspace config directory fails, that directory does not
\* exist when run has returned.
C7_WorkspaceRollback ==
  \A p \in Procs :
    (Returned(p) /\ failedAt[p] \in WorkspaceSteps \cup SecretSteps) =>
      ~Exists(fs, gitopsConfig(p))

\* C8 (worktree naming): after a successful init the gitops worktree is on
\* the orphan branch named as the workspace: the name of the config
\* directory, of the pushed branch, of the routes and of the stack project.
C8_WorktreeNaming ==
  /\ \A q \in DOMAIN fs : fs[q].k = "worktree" => fs[q].v = q[Len(q) - 1]
  /\ \A p \in Procs :
       Succeeded(p) =>
         /\ Exists(fs, gitopsWorktree(p))
         /\ fs[gitopsWorktree(p)] = [k |-> "worktree", v |-> gitopsName[p]]
         /\ gitopsName[p] \in routes
         /\ projectName(gitopsName[p]) \in stacks
         /\ (o[p].remoteRepo # "") => gitopsName[p] \in remoteBranches

C8_Witness ==
  \E p \in Procs :
    /\ Succeeded(p) /\ gitopsName[p] = "demo" /\ o[p].remoteRepo # ""
    /\ fs[gitopsWorktree(p)].v = "demo"

\* C9 (idempotent network ensure): a network stage run when an earlier one
\* has left the network in place finds it by its exact name, issues no
\* create call, does not fail and leaves exactly one network of that name
\* (the engine answering the listing).
C9_IdempotentNetworkEnsure ==
  [][\A p \in Procs :
       (pc[p] = "network" /\ pc'[p] # "network") =>
         LET lsFailed == pc'[p] = "done" /\ failedAt'[p] = "network"
         IN /\ networks'[networkName] <= 1
            /\ (networks[networkName] >= 1 /\ ~lsFailed) =>
                 /\ "networkFound" \in did'[p]
                 /\ "networkCreate" \notin did'[p]
                 /\ networks' = networks
                 /\ pc'[p] = "probe"
            /\ "networkFound" \in did'[p] => networks[networkName] = 1]_vars

C9_Witness ==
  \E p \in Procs :
    /\ runs = 2 /\ pc[p] = "probe"
    /\ "networkFound" \in did[p] /\ "networkCreate" \notin did[p]
    /\ networks[networkName] = 1

\* C10 (version pattern selection): from a list of tags the resolver returns
\* the newest (first listed) tag of the form four digits, "-", digits,
\* "-git-", hex digits when there is one, and the error "No valid version
\* found" when there is none; no other tag is returned without an error.
IsDatedBuild(s) ==
  \E n \in 1..Len(s) :
    /\ \A k \in 1..4 : k <= Len(s) /\ s[k] \in Digits
    /\ Len(s) >= 5 /\ s[5] = "-"
    /\ \A k \in 6..(5 + n) : k <= Len(s) /\ s[k] \in Digits
    /\ Len(s) > 10 + n
    /\ SubSeq(s, 6 + n, 10 + n) = <<"-", "g", "i", "t", "-">>
    /\ \A k \in (11 + n)..Len(s) : s[k] \in HexDigits

C10_VersionPatternSelection ==
  (resolver.pc = "done" /\ resolver.response.kind = "tags") =>
    LET ts == resolver.response.tags
        M == {i \in 1..Len(ts) : IsDatedBuild(ts[i])}
    IN /\ M # {} =>
            /\ resolver.err = ""
            /\ \E i \in M : resolver.tag = ts[i] /\ \A j \in M : i <= j
       /\ M = {} => resolver.err = "No valid version found"
       /\ resolver.err = "" => IsDatedBuild(resolver.tag)

C10_Witness ==
  /\ resolver.pc = "done"
  /\ resolver.response.tags = <<TagLatest, TagBuildB, TagBuildA>>
  /\ resolver.tag = TagBuildB /\ resolver.err = ""

LookupSteps == {"gitopsImage", "editorImage"}
LookupFailed(p) == "lookupFailed" \in did[p]

C12_LookupFailureOrdering ==
  \A p \in Procs :
    LookupFailed(p) =>
      /\ Returned(p) /\ failedAt[p] \in LookupSteps /\ result[p] # "error"
      /\ did[p] \cap {"routes", "up"} = {}

\* C12 as stated: nor has it started the proxy stack or pushed to the remote.
C12_LookupFailureOrdering_AsStated ==
  \A p \in Procs :
    LookupFailed(p) =>
      /\ Returned(p) /\ failedAt[p] \in LookupSteps
      /\ did[p] \cap {"routes", "up", "caddyUp", "push"} = {}

C12_Witness ==
  \E p \in Procs :
    /\ LookupFailed(p) /\ Returned(p) /\ failedAt[p] = "editorImage"
    /\ {"caddyUp", "push"} \subseteq did[p]
    /\ proxyRunning /\ gitopsName[p] \in remoteBranches

\* C13 (shared layout of init and list): a list run after a successful init
\* <name> prints <name>, and prints only names whose workspace config
\* directory init created.
ListRan == listed # NotListed

C13_SharedLayout ==
  ListRan =>
    /\ \A p \in Procs : Succeeded(p) => gitopsName[p] \in listed.names
    /\ \A n \in listed.names : IsDir(fs, gitopsConfigOf(n))

Children(f, d) == {q \in DOMAIN f : Len(q) = Len(d) + 1 /\ IsPrefix(d, q)}

C15_CertificateInstall ==
  [][\A p \in Procs :
       (pc[p] = "install" /\ pc'[p] = "name" /\ inputCertsDir[p] # "") =>
         LET src == DirPath(inputCertsDir[p])
             dst == caddyCertsDir \o <<Domain>>
         IN /\ Subtree(fs', src) = Subtree(fs, src)
            /\ IsDir(fs', dst)
            /\ \A q \in Children(fs, src) :
                 LET to == dst \o <<q[Len(q)]>>
                 IN IF fs[q].k = "dir"
                    THEN ~Exists(fs', to)
                    ELSE Exists(fs', to) /\ fs'[to] = fs[q]]_vars

C15_Witness ==
  \E p \in Procs :
    /\ pc[p] = "name" /\ "install" \in did[p] /\ inputCertsDir[p] = "certsrc"
    /\ fs[caddyCertsDir \o <<Domain, "full-chain.pem">>] = File("chain")
    /\ fs[caddyCertsDir \o <<Domain, "private-key.pem">>] = File("key")
    /\ ~Exists(fs, caddyCertsDir \o <<Domain, "old">>)

\* C16 (working directory restored): when generateWildcardCerts has returned,
\* with the directory of the certificates or with any of its errors, the
\* working directory of the process is the one it was called in.
GenerationReturned(p) == "mkcerts" \in did'[p] \/ failedAt'[p] = "mkcerts"

C16_WorkingDirectoryRestored ==
  [][\A p \in Procs :
       (pc[p] = "certs" /\ pc'[p] # "certs" /\ GenerationReturned(p)) =>
         /\ cwd'[p] = cwd[p]
         /\ (pc'[p] = "done") = (failedAt'[p] = "mkcerts")]_vars

\* the rename of the key failed, after the chdir to the temporary directory,
\* in a process the bootstrap had moved to the proxy config directory
C16_Witness ==
  \E p \in Procs :
    /\ pc[p] = "done" /\ failedAt[p] = "mkcerts" /\ result[p] = "error"
    /\ cwd[p] = caddyConfig
    /\ \E i \in 1..MaxRuns : Exists(fs, DirPath(TempDirs[i]) \o <<KeyFile>>)

\* C17 (proxy-bootstrap race): with invocations in flight at once, an
\* invocation whose probe found the proxy runs no bootstrap step, and the
\* proxy stack is started a second time only when a probe ran while another
\* invocation was between its own probe and its stack start; invocations that
\* never overlap so start it at most once.
C17_ProxyBootstrapRace ==
  /\ \A p \in Procs :
       (pc[p] # "idle" /\ caddy_running[p]) => did[p] \cap ProxyBootstrapSteps = {}
  /\ \A p \in Procs : "caddyUp" \in did[p] => ~caddy_running[p]
  /\ ~raced => caddyStarts <= 1
  /\ (caddyStarts >= 1) = proxyRunning

\* both invocations probed before either started the stack, both wrote the
\* proxy config and both issued the stack start
C17_Witness ==
  /\ raced /\ caddyStarts = 2
  /\ \A p \in Procs :
       /\ "caddyAbsent" \in did[p] /\ ~caddy_running[p]
       /\ {"caddyfile", "caddyWrite", "caddyUp"} \subseteq did[p]

\* C18 (proxy cleanup scoped to the bootstrap): an invocation runs the proxy
\* cleanup only when it attempted the bootstrap itself and a bootstrap step
\* failed; an invocation whose probe found the proxy leaves the proxy config
\* files it found in place and unaltered, whatever fails later.
C18_ProxyCleanupScope ==
  \A p \in SerialProcs :
    /\ "proxy" \in cleaned[p] =>
         (~caddy_running[p] /\ failedAt[p] \in ProxyBootstrapSteps)
    /\ (pc[p] # "idle" /\ caddy_running[p]) =>
         \A q \in CaddyFiles :
           Exists(fsAtStart[p], q) => (Exists(fs, q) /\ fs[q] = fsAtStart[p][q])

\* C19 (global initialization before routes): an invocation that reuses a
\* running proxy, and one that registers routes, does so with a proxy whose
\* one-time initialization has succeeded.
C19_InitBeforeRoutes ==
  \A p \in SerialProcs :
    /\ (pc[p] # "idle" /\ caddy_running[p]) => proxyInitialized
    /\ "routes" \in did[p] => proxyInitialized

\* C20 (no orphaned external state): when an invocation has returned, a
\* workspace has routes in the proxy or a started stack only if its config
\* directory, with deployment/docker-compose.yml, exists.
HasExternalState(n) == n \in routes \/ projectName(n) \in stacks

C20_NoOrphanedState ==
  (\A p \in SerialProcs : Returned(p)) =>
    \A n \in Names :
      HasExternalState(n) =>
        Exists(fs, gitopsConfigOf(n) \o <<"deployment", "docker-compose.yml">>)

\* C21 (workspace cleanup only removes what this invocation created): the
\* workspace-scoped cleanup runs only in an invocation that did not leave at
\* the conflict check, found no directory <config root>/<name> when it
\* started and created that directory itself; a directory <config root>/<name>
\* that existed when the invocation started keeps its whole content, at the
\* conflict check and when run has returned.
HandlerRegistered(p) ==
  \E i \in 1..Len(defers[p]) : defers[p][i] = WorkspaceHandler(gitopsName[p])

C21_CleanupOnlyOwn ==
  \A p \in SerialProcs :
    gitopsName[p] # "" =>
      /\ "workspace" \in cleaned[p] =>
           /\ failedAt[p] # "conflict"
           /\ ~Exists(fsAtStart[p], gitopsConfig(p))
           /\ "mkdirGitops" \in did[p]
      /\ Exists(fsAtStart[p], gitopsConfig(p)) =>
           Subtree(fs, gitopsConfig(p)) = Subtree(fsAtStart[p], gitopsConfig(p))

\* the handler was registered and run left at the conflict check, on a
\* directory holding a provisioned workspace
C21_Witness ==
  \E p \in SerialProcs :
    /\ Returned(p) /\ failedAt[p] = "conflict"
    /\ HandlerRegistered(p)
    /\ Exists(fsAtStart[p], gitopsWorkspace(p))
    /\ Exists(fs, gitopsWorkspace(p))

\* C22 (workspace name comes from the command line): once run has chosen the
\* name, with one or with two positional arguments, the name is the first
\* positional argument, and a successful invocation has its config
\* directory, its worktree branch, its routes and its stack project under
\* that argument.
C22_NameFromArgs ==
  \A p \in SerialProcs :
    args[p] # <<>> =>
      /\ gitopsName[p] = args[p][1]
      /\ Succeeded(p) =>
           /\ Exists(fs, gitopsConfigOf(args[p][1]) \o <<"gitops">>)
           /\ fs[gitopsConfigOf(args[p][1]) \o <<"gitops">>].v = args[p][1]
           /\ args[p][1] \in routes
           /\ projectName(args[p][1]) \in stacks
====
